---- MODULE Spec2Model ----
(***************************************************************************)
(* Model of scripts/process_and_rename_images.py: the timestamp resolver,  *)
(* the sidecar locator (find_json_file) and the two-pass rename planner    *)
(* (process), which appends its plan to ALL_YEARS.sh.                      *)
(*                                                                         *)
(* A Python str is a sequence of one-character strings, so that slicing,   *)
(* replace(), strip(), regular-expression matching and lexicographic       *)
(* comparison are computed character by character as the code does.        *)
(* None is a value no str equals.                                          *)
(***************************************************************************)
EXTENDS Integers, Sequences, FiniteSets, TLC

None == << "None" >>

(***************************************************************************)
(* Characters and strings                                                  *)
(***************************************************************************)

\* The printable ASCII characters in code-point order, from 32 (space); the
\* double quote, the backslash and the backtick are written by name.
ASCII ==
    << " ", "!", "QUOTE", "#", "$", "%", "&", "'", "(", ")", "*", "+", ",", "-", ".", "/",
       "0", "1", "2", "3", "4", "5", "6", "7", "8", "9", ":", ";", "<", "=", ">", "?",
       "@", "A", "B", "C", "D", "E", "F", "G", "H", "I", "J", "K", "L", "M", "N", "O",
       "P", "Q", "R", "S", "T", "U", "V", "W", "X", "Y", "Z", "[", "BACKSLASH", "]", "^", "_",
       "BACKTICK", "a", "b", "c", "d", "e", "f", "g", "h", "i", "j", "k", "l", "m", "n", "o",
       "p", "q", "r", "s", "t", "u", "v", "w", "x", "y", "z", "{", "|", "}", "~" >>

\* ord(c): the code point of a character (tab, newline and return are below space).
CodePoint ==
    [c \in {ASCII[i] : i \in 1..Len(ASCII)} \cup {"\t", "\n", "\r"} |->
        IF c = "\t" THEN 9
        ELSE IF c = "\n" THEN 10
        ELSE IF c = "\r" THEN 13
        ELSE 31 + (CHOOSE i \in 1..Len(ASCII) : ASCII[i] = c)]
Ord(c) == CodePoint[c]

IsDigit(c) == Ord(c) >= 48 /\ Ord(c) <= 57
IsUpper(c) == Ord(c) >= 65 /\ Ord(c) <= 90
IsLower(c) == Ord(c) >= 97 /\ Ord(c) <= 122
IsAlpha(c) == IsUpper(c) \/ IsLower(c)
IsSpace(c) == c \in {" ", "\t", "\n", "\r"}

\* str.lower() on one character and on a string.
LowerChar(c) == IF IsUpper(c) THEN ASCII[Ord(c) - 31 + 32] ELSE c
Lower(s) == [i \in 1..Len(s) |-> LowerChar(s[i])]

\* s[:n] and s[n:] with Python clamping of the slice bound (n >= 0).
Take(s, n) == SubSeq(s, 1, IF n < Len(s) THEN n ELSE Len(s))
Drop(s, n) == SubSeq(s, (IF n < Len(s) THEN n ELSE Len(s)) + 1, Len(s))

StartsWith(s, p) == Len(p) <= Len(s) /\ Take(s, Len(p)) = p
EndsWith(s, p) == Len(p) <= Len(s) /\ Drop(s, Len(s) - Len(p)) = p

\* Python  < on str: code-point order at the first difference, a proper
\* prefix sorting before the longer string.
StrLess(a, b) ==
    \E k \in 1..Len(b) :
        /\ k - 1 <= Len(a)
        /\ Take(a, k - 1) = Take(b, k - 1)
        /\ (Len(a) = k - 1 \/ Ord(a[k]) < Ord(b[k]))

\* str.strip(): leading and trailing whitespace removed.
RECURSIVE LStrip(_)
LStrip(s) == IF s # << >> /\ IsSpace(Head(s)) THEN LStrip(Tail(s)) ELSE s
RECURSIVE RStrip(_)
RStrip(s) ==
    IF s # << >> /\ IsSpace(s[Len(s)]) THEN RStrip(SubSeq(s, 1, Len(s) - 1)) ELSE s
Strip(s) == RStrip(LStrip(s))

\* The decimal digits of a natural number, and f"{n:0{width}d}".
RECURSIVE Decimal(_)
Decimal(n) ==
    IF n < 10 THEN << ASCII[n + 17] >>
    ELSE Decimal(n \div 10) \o << ASCII[(n % 10) + 17] >>
RECURSIVE ZeroPad(_, _)
ZeroPad(n, width) ==
    IF Len(Decimal(n)) >= width THEN Decimal(n)
    ELSE << "0" >> \o ZeroPad(n, width - 1)

\* String literals of the program.
SUPPLEMENTAL_METADATA ==
    << ".", "s", "u", "p", "p", "l", "e", "m", "e", "n", "t", "a", "l",
       "-", "m", "e", "t", "a", "d", "a", "t", "a" >>
DOT_JSON == << ".", "j", "s", "o", "n" >>
DONE_DIR == << "d", "o", "n", "e" >>
IMAGE_EXTENSIONS == { << ".", "j", "p", "g" >>, << ".", "j", "p", "e", "g" >> }
VIDEO_EXTENSIONS ==
    { << ".", "a", "v", "i" >>, << ".", "m", "p", "4" >>, << ".", "m", "o", "v" >> }

(***************************************************************************)
(* posixpath                                                               *)
(***************************************************************************)

\* The index of the last "/" of a path, 0 when it has none (str.rfind + 1).
LastSlash(p) ==
    IF \E i \in 1..Len(p) : p[i] = "/"
    THEN CHOOSE i \in 1..Len(p) : p[i] = "/" /\ \A j \in (i + 1)..Len(p) : p[j] # "/"
    ELSE 0

\* os.path.join(a, b): an absolute b discards a.
Join2(a, b) ==
    IF b # << >> /\ Head(b) = "/" THEN b
    ELSE IF a = << >> \/ a[Len(a)] = "/" THEN a \o b
    ELSE a \o << "/" >> \o b
Join3(a, b, c) == Join2(Join2(a, b), c)

\* os.path.dirname(p): the head up to the last "/", its trailing slashes
\* stripped unless it consists of slashes only.
RECURSIVE RStripSlash(_)
RStripSlash(s) ==
    IF s # << >> /\ s[Len(s)] = "/" THEN RStripSlash(SubSeq(s, 1, Len(s) - 1)) ELSE s
Dirname(p) ==
    LET head == Take(p, LastSlash(p))
    IN  IF head # << >> /\ \E i \in 1..Len(head) : head[i] # "/"
        THEN RStripSlash(head) ELSE head

Basename(p) == Drop(p, LastSlash(p))

\* os.path.splitext(p)[1]: from the last "." of the base name, unless that
\* dot is preceded by dots only (a leading dot starts no extension).
SplitextExt(p) ==
    LET b == Basename(p)
        dots == {i \in 1..Len(b) : b[i] = "."}
    IN  IF dots = {} THEN << >>
        ELSE LET d == CHOOSE i \in dots : \A j \in dots : j <= i
             IN  IF \E j \in 1..(d - 1) : b[j] # "." THEN Drop(b, d - 1) ELSE << >>

(***************************************************************************)
(* Timestamp parsers and the primary tag reader                            *)
(***************************************************************************)

\* str.replace(":", ""): every colon removed.
RemoveColons(s) == SelectSeq(s, LAMBDA c : c # ":")

\* str.replace(" ", "-", 1): the first space, if any, becomes a dash.
ReplaceFirstSpace(s) ==
    IF \E i \in 1..Len(s) : s[i] = " "
    THEN LET k == CHOOSE i \in 1..Len(s) : s[i] = " " /\ \A j \in 1..(i - 1) : s[j] # " "
         IN  [s EXCEPT ![k] = "-"]
    ELSE s

\* format_exif_datetime(dt_string): no check of the pattern is made.
format_exif_datetime(dt_string) ==
    IF dt_string = None \/ dt_string = << >> THEN None
    ELSE ReplaceFirstSpace(RemoveColons(dt_string))

\* get_exif_datetime(filepath), given what running exiftool on the file gives:
\* [returncode, stdout], or [raises] when subprocess.run raises an exception
\* other than FileNotFoundError (main() has checked that exiftool exists).
get_exif_datetime(run) ==
    IF run.raises THEN None
    ELSE IF run.returncode # 0 \/ Strip(run.stdout) = << >> \/ Strip(run.stdout) = << "-" >>
    THEN None
    ELSE Strip(run.stdout)

\* A Python truth test of an Optional[str]: None and "" are false.
Truthy(x) == x # None /\ x # << >>

(***************************************************************************)
(* The primary tag reader of videos: get_video_exif_datetime               *)
(***************************************************************************)

\* The last index of the run of characters of the set `class` that starts
\* at `start`; start - 1 when s[start] is not of the set.
RunEnd(s, start, class) ==
    IF start > Len(s) \/ s[start] \notin class THEN start - 1
    ELSE CHOOSE e \in start..Len(s) :
             /\ \A j \in start..e : s[j] \in class
             /\ (e = Len(s) \/ s[e + 1] \notin class)

\* The characters of a line, and \s.
LINE_CHARS == DOMAIN CodePoint \ {"\n"}
WHITESPACE == {" ", "\t", "\n", "\r"}

\* str.splitlines() of a string whose line ends are "\n".
RECURSIVE SplitLines(_)
SplitLines(s) ==
    IF s = << >> THEN << >>
    ELSE LET e == RunEnd(s, 1, LINE_CHARS)
         IN  << SubSeq(s, 1, e) >> \o SplitLines(Drop(s, e + 1))

\* The ends of the consecutive runs of characters of the sets `classes`, the
\* first run starting at `start`.
RECURSIVE RunEnds(_, _, _)
RunEnds(s, start, classes) ==
    IF classes = << >> THEN << >>
    ELSE LET e == RunEnd(s, start, Head(classes))
         IN  << e >> \o RunEnds(s, e + 1, Tail(classes))

\* The character class [\\w\\d_] of the raw-string patterns: the doubled
\* backslashes make it the set of the backslash, "w", "d" and "_".
TAG_CLASS == {"BACKSLASH", "w", "d", "_"}

\* The runs of r'\\[\\w\\d_\\]+\\\s+([\\w\\d_]+)\s+:\s+(.*)' after its first
\* backslash: characters of the class (the last one the backslash the
\* pattern names next), whitespace, the tag name, whitespace, the colon,
\* whitespace.
TAG_LINE_RUNS == << TAG_CLASS, WHITESPACE, TAG_CLASS, WHITESPACE, {":"}, WHITESPACE >>

\* The groups of a match whose runs end at the places r.
TagLineSplit(line, r) ==
    IF /\ line # << >>
       /\ line[1] = "BACKSLASH"
       /\ r[1] >= 3
       /\ line[r[1]] = "BACKSLASH"
       /\ r[2] > r[1]
       /\ r[3] > r[2]
       /\ r[4] > r[3]
       /\ r[5] = r[4] + 1
       /\ r[6] > r[5]
    THEN [matched |-> TRUE, tag_name |-> SubSeq(line, r[2] + 1, r[3]),
          tag_value |-> Drop(line, r[6])]
    ELSE [matched |-> FALSE, tag_name |-> << >>, tag_value |-> << >>]

\* re.match of that pattern on a line. Each run is the longest one, as
\* nothing else lets the rest of the pattern match.
TagLineMatch(line) == TagLineSplit(line, RunEnds(line, 2, TAG_LINE_RUNS))

\* The text r'\\d{4}:\\d{2}:\\d{2} \\d{2}:\\d{2}:\\d{2}' matches at the start
\* of a value: a backslash and the letter d four times, and so on.
DATE_PATTERN_TEXT ==
    << "BACKSLASH", "d", "d", "d", "d", ":", "BACKSLASH", "d", "d", ":",
       "BACKSLASH", "d", "d", " ", "BACKSLASH", "d", "d", ":",
       "BACKSLASH", "d", "d", ":", "BACKSLASH", "d", "d" >>
DateValueMatch(value) == StartsWith(value, DATE_PATTERN_TEXT)

\* The match of every line; the lines whose value matches the date pattern.
TagMatches(lines) == [k \in 1..Len(lines) |-> TagLineMatch(lines[k])]
DateTagLines(matches) ==
    {k \in 1..Len(matches) :
        matches[k].matched /\ DateValueMatch(Strip(matches[k].tag_value))}

\* found_tags after the lines have been read: the last of the lines `hits`
\* that names a tag gives its value.
FoundTagsOf(matches, hits) ==
    [n \in {matches[k].tag_name : k \in hits} |->
        Strip(matches[CHOOSE k \in hits :
                          /\ matches[k].tag_name = n
                          /\ \A j \in hits : matches[j].tag_name = n => j <= k].tag_value)]
FoundTagsIn(matches) == FoundTagsOf(matches, DateTagLines(matches))
FoundTags(lines) == FoundTagsIn(TagMatches(lines))

\* preference
TAG_PREFERENCE ==
    << << "D", "a", "t", "e", "T", "i", "m", "e", "O", "r", "i", "g", "i", "n", "a", "l" >>,
       << "C", "r", "e", "a", "t", "e", "D", "a", "t", "e" >>,
       << "M", "e", "d", "i", "a", "C", "r", "e", "a", "t", "e", "D", "a", "t", "e" >>,
       << "T", "r", "a", "c", "k", "C", "r", "e", "a", "t", "e", "D", "a", "t", "e" >> >>

\* Lines 92-97: the value of the first tag of the preference that was
\* found, None when none was.
RECURSIVE FirstPreferred(_, _)
FirstPreferred(found_tags, preference) ==
    IF preference = << >> THEN None
    ELSE IF Head(preference) \in DOMAIN found_tags THEN found_tags[Head(preference)]
    ELSE FirstPreferred(found_tags, Tail(preference))

\* get_video_exif_datetime(filepath), given what running exiftool -G -s with
\* the four tags on the file gives.
get_video_exif_datetime(run) ==
    IF run.raises THEN None
    ELSE IF run.returncode # 0 THEN None
    ELSE FirstPreferred(FoundTags(SplitLines(Strip(run.stdout))), TAG_PREFERENCE)

(***************************************************************************)
(* Sidecar locator: find_json_file                                         *)
(***************************************************************************)

\* The positions p of image_path at which "(" digits+ ")" "." starts, with no
\* newline before p (the "." of the pattern does not match a newline).
SuffixStarts(image_path) ==
    { p \in 1..Len(image_path) :
        /\ image_path[p] = "("
        /\ \A j \in 1..(p - 1) : image_path[j] # "\n"
        /\ \E q \in (p + 2)..(Len(image_path) - 1) :
              /\ \A j \in (p + 1)..(q - 1) : IsDigit(image_path[j])
              /\ image_path[q] = ")"
              /\ image_path[q + 1] = "." }

\* re.match(r'(.*)(\([0-9]+\))(\.[a-zA-Z]*)', image_path): None, or the three
\* groups. The greedy first group ends at the last place where the rest still
\* matches; the third group is the dot and the letters that follow it. The
\* match is anchored at the start only: what follows the letters is dropped.
SuffixMatch(image_path) ==
    IF SuffixStarts(image_path) = {}
    THEN [matched |-> FALSE, filename |-> << >>, num |-> None, ext |-> << >>]
    ELSE LET p == CHOOSE x \in SuffixStarts(image_path) :
                      \A y \in SuffixStarts(image_path) : y <= x
             q == CHOOSE x \in (p + 2)..Len(image_path) :
                      /\ image_path[x] = ")"
                      /\ \A j \in (p + 1)..(x - 1) : IsDigit(image_path[j])
             e == CHOOSE x \in (q + 1)..Len(image_path) :
                      /\ \A j \in (q + 2)..x : IsAlpha(image_path[j])
                      /\ (x = Len(image_path) \/ ~IsAlpha(image_path[x + 1]))
         IN  [matched |-> TRUE,
              filename |-> SubSeq(image_path, 1, p - 1),
              num |-> SubSeq(image_path, p, q),
              ext |-> SubSeq(image_path, q + 1, e)]

\* The local num of find_json_file: None unless the pattern matched.
SuffixNum(image_path) == SuffixMatch(image_path).num

\* The local metadata_name of find_json_file.
MetadataName(image_path) ==
    IF SuffixMatch(image_path).matched
    THEN SuffixMatch(image_path).filename \o SuffixMatch(image_path).ext
            \o SUPPLEMENTAL_METADATA
    ELSE image_path \o SUPPLEMENTAL_METADATA

\* The stop of range(len(metadata_name), 10, -1): the loop runs while i > 10.
ProbeStop == 10

\* A loop that also tests the prefix of length 10.
InRangeInclusive(i) == i >= ProbeStop

\* Whether the loop of find_json_file runs for the prefix length i.
InRange(i) == i > ProbeStop

\* The first prefix length the loop tests.
FirstProbeLen(metadata_name) == Len(metadata_name)

\* potential_json_path for the prefix length i.
PotentialJsonPath(metadata_name, num, i) ==
    IF Truthy(num) THEN Take(metadata_name, i) \o num \o DOT_JSON
    ELSE Take(metadata_name, i) \o DOT_JSON

\* The loop of find_json_file from the prefix length i on: the first probe
\* that os.path.exists finds among the paths `existing`, or None.
RECURSIVE ProbeFrom(_, _, _, _)
ProbeFrom(metadata_name, num, i, existing) ==
    IF ~InRange(i) THEN None
    ELSE IF PotentialJsonPath(metadata_name, num, i) \in existing
    THEN PotentialJsonPath(metadata_name, num, i)
    ELSE ProbeFrom(metadata_name, num, i - 1, existing)

find_json_file(image_path, existing) ==
    ProbeFrom(MetadataName(image_path), SuffixNum(image_path),
              FirstProbeLen(MetadataName(image_path)), existing)

(***************************************************************************)
(* Sidecar JSON reader: get_json_datetime                                  *)
(***************************************************************************)

\* An exception that get_json_datetime does not catch and process() does not
\* either: it ends the run.
Raise == << "Raise" >>

\* A JSON value of "timestamp" that is neither a string nor a number.
JsonList == << "JsonList" >>

\* The offset of local time from UTC, in seconds, where the script runs.
LocalUtcOffset == 3600

\* What int(timestamp_str) reads of a string: surrounding whitespace and an
\* optional sign, then decimal digits only.
IntSign(s) == IF Strip(s) # << >> /\ Head(Strip(s)) \in {"-", "+"} THEN Head(Strip(s)) ELSE "+"
IntDigits(s) ==
    IF Strip(s) # << >> /\ Head(Strip(s)) \in {"-", "+"} THEN Tail(Strip(s)) ELSE Strip(s)
IntParses(s) == IntDigits(s) # << >> /\ \A i \in 1..Len(IntDigits(s)) : IsDigit(IntDigits(s)[i])

RECURSIVE DigitsValue(_)
DigitsValue(d) ==
    IF d = << >> THEN 0
    ELSE 10 * DigitsValue(SubSeq(d, 1, Len(d) - 1)) + (Ord(d[Len(d)]) - 48)

IntValue(s) == IF IntSign(s) = "-" THEN 0 - DigitsValue(IntDigits(s)) ELSE DigitsValue(IntDigits(s))

\* The civil date of a day number counted from 1970-01-01 (proleptic
\* Gregorian calendar), as datetime computes it.
CivilFromDays(days) ==
    LET z == days + 719468
        era == z \div 146097
        doe == z - era * 146097
        yoe == (doe - (doe \div 1460) + (doe \div 36524) - (doe \div 146096)) \div 365
        doy == doe - (365 * yoe + (yoe \div 4) - (yoe \div 100))
        mp == (5 * doy + 2) \div 153
        d == doy - ((153 * mp + 2) \div 5) + 1
        m == IF mp < 10 THEN mp + 3 ELSE mp - 9
        y == yoe + era * 400 + (IF m <= 2 THEN 1 ELSE 0)
    IN  [year |-> y, month |-> m, day |-> d]

\* datetime.fromtimestamp(n).strftime('%Y%m%d-%H%M%S') for a four-digit year.
StrftimeLocal(n) ==
    LET local == n + LocalUtcOffset
        date == CivilFromDays(local \div 86400)
        secs == local % 86400
    IN  ZeroPad(date.year, 4) \o ZeroPad(date.month, 2) \o ZeroPad(date.day, 2)
            \o << "-" >> \o ZeroPad(secs \div 3600, 2)
            \o ZeroPad((secs % 3600) \div 60, 2) \o ZeroPad(secs % 60, 2)

\* get_json_datetime(json_filepath), given the content of the file:
\*   json           "invalid" (json.load raises JSONDecodeError, caught),
\*                  "array" (data.get raises AttributeError, not caught),
\*                  "object"
\*   photoTakenTime "absent" (the default {} is used), "string" (its .get
\*                  raises AttributeError, not caught), "object"
\*   timestamp      None (absent), JsonList (int() raises TypeError, not
\*                  caught), or a string
\* A string that int() rejects raises ValueError (caught). A value of 18
\* digits or more is outside what the platform converts (OverflowError or
\* OSError, not caught); one of 12 to 16 digits is a year past 9999
\* (ValueError, caught). Shorter values are converted.
get_json_datetime(content) ==
    IF content.json = "invalid" THEN None
    ELSE IF content.json # "object" THEN Raise
    ELSE IF content.photoTakenTime = "absent" THEN None
    ELSE IF content.photoTakenTime # "object" THEN Raise
    ELSE IF ~Truthy(content.timestamp) THEN None
    ELSE IF content.timestamp = JsonList THEN Raise
    ELSE IF ~IntParses(content.timestamp) THEN None
    ELSE IF Len(IntDigits(content.timestamp)) >= 18 THEN Raise
    ELSE IF Len(IntDigits(content.timestamp)) >= 12 THEN None
    ELSE StrftimeLocal(IntValue(content.timestamp))

(***************************************************************************)
(* The file system the planner reads                                       *)
(***************************************************************************)

\* Bounds of the model: the media files of the scanned directory; the calls
\* of process() in a row and the media files of the directory they scan; the
\* image files of a directory that also holds a video.
MaxFiles == 3
MaxRuns == 2
MaxRerunFiles == 2
MaxVideoCompanions == 1

NAME_A == << "a", ".", "j", "p", "g" >>
NAME_B == << "B", ".", "J", "P", "G" >>
NAME_C == << "c", ".", "j", "p", "e", "g" >>
NAME_D == << "b", ".", "j", "p", "g" >>
NAME_TXT == << "n", ".", "t", "x", "t" >>
NAME_V == << "v", ".", "m", "p", "4" >>

\* Images whose names differ only behind a common beginning, and a sidecar
\* the exporter wrote under a name cut off inside that beginning.
NAME_IMG_JPG == << "I", "M", "G", "_", "0", "0", "0", "1", ".", "j", "p", "g" >>
NAME_IMG_JPEG == << "I", "M", "G", "_", "0", "0", "0", "1", ".", "j", "p", "e", "g" >>
NAME_IMG_UPPER == << "I", "M", "G", "_", "0", "0", "0", "1", ".", "J", "P", "G" >>
NAME_TRUNCATED == << "I", "M", "G", "_", "0", "0", "0", "1", ".", "j", "p", ".", "j", "s", "o", "n" >>
SharedNames == {NAME_IMG_JPG, NAME_IMG_JPEG, NAME_IMG_UPPER}
MaxSharedFiles == 2

\* The names a scanned directory may hold media under (fewer where the
\* script is run several times), and the files that are no media files.
MediaNames == {NAME_A, NAME_B, NAME_C, NAME_D}
RerunNames == {NAME_A, NAME_B, NAME_C}
OtherNames == {NAME_TXT, NAME_TRUNCATED}

\* The directory argument: the same directory spelled as a relative path, as
\* an absolute path, and through "..".
Directories ==
    { << "p" >>, << "/", "p" >>, << ".", ".", "/", "p" >> }

\* What exiftool -T -DateTimeOriginal prints for a file.
ExifRun(returncode, stdout) ==
    [raises |-> FALSE, returncode |-> returncode, stdout |-> stdout]
STAMP_1 ==
    << "2", "0", "2", "3", ":", "0", "1", ":", "0", "1", " ",
       "1", "2", ":", "0", "0", ":", "0", "0" >>
ExifFails == ExifRun(1, << >>)
ExifDash == ExifRun(0, << "-", "\n" >>)
ExifStamp == ExifRun(0, STAMP_1 \o << "\n" >>)
ExifStampTail == ExifRun(0, STAMP_1 \o << "-", "0", "0", "\n" >>)

\* The content of a sidecar file; NoSidecar when the file has none on disk.
Json(json, photoTakenTime, timestamp) ==
    [json |-> json, photoTakenTime |-> photoTakenTime, timestamp |-> timestamp]
NoSidecar == Json("nofile", "absent", None)
JsonArray == Json("array", "absent", None)
\* 2023-01-01 11:00:00 UTC and 2023-01-01 12:00:00 UTC.
JsonEpoch1 == Json("object", "object", << "1", "6", "7", "2", "5", "7", "0", "8", "0", "0" >>)
JsonEpoch2 == Json("object", "object", << "1", "6", "7", "2", "5", "7", "4", "4", "0", "0" >>)

\* What exiftool -G -s with the four date tags prints for a video.
VideoStamp ==
    ExifRun(0, << "[", "Q", "u", "i", "c", "k", "T", "i", "m", "e", "]", " ",
                  "C", "r", "e", "a", "t", "e", "D", "a", "t", "e", " ", ":", " " >>
               \o STAMP_1 \o << "\n" >>)

\* The same output with a line of MediaCreateDate, an hour later, before it.
STAMP_2 ==
    << "2", "0", "2", "3", ":", "0", "1", ":", "0", "1", " ",
       "1", "3", ":", "0", "0", ":", "0", "0" >>
VideoTwoTags ==
    ExifRun(0, << "[", "Q", "u", "i", "c", "k", "T", "i", "m", "e", "]", " ",
                  "M", "e", "d", "i", "a", "C", "r", "e", "a", "t", "e", "D", "a", "t", "e",
                  " ", ":", " " >>
               \o STAMP_2 \o << "\n" >> \o VideoStamp.stdout)

\* What an image of the directory can be: what exiftool reads from it and
\* the sidecar the exporter wrote for it. The same for a video.
VideoProfiles ==
    { [exif |-> VideoStamp, sidecar |-> NoSidecar],
      [exif |-> VideoStamp, sidecar |-> JsonEpoch1],
      [exif |-> VideoTwoTags, sidecar |-> NoSidecar] }
Profiles ==
    { [exif |-> ExifFails, sidecar |-> NoSidecar],
      [exif |-> ExifStamp, sidecar |-> NoSidecar],
      [exif |-> ExifStamp, sidecar |-> JsonEpoch2],
      [exif |-> ExifStampTail, sidecar |-> JsonEpoch2],
      [exif |-> ExifDash, sidecar |-> JsonEpoch1],
      [exif |-> ExifFails, sidecar |-> JsonArray] }

\* The profiles of the files of a directory the script is run on several
\* times: no timestamp, a primary tag, a sidecar with the same timestamp, a
\* sidecar that is a JSON array.
RerunProfiles ==
    { [exif |-> ExifFails, sidecar |-> NoSidecar],
      [exif |-> ExifStamp, sidecar |-> NoSidecar],
      [exif |-> ExifDash, sidecar |-> JsonEpoch1],
      [exif |-> ExifFails, sidecar |-> JsonArray] }

\* The name the exporter gives the sidecar of a media file (not truncated).
SidecarName(name) == name \o SUPPLEMENTAL_METADATA \o DOT_JSON

VARIABLES
    media,                \* file system: media file name -> its profile
    pc,                   \* process(): "idle", "pass1", "pass2", "returned", "raised"
    directory,            \* process(): the argument
    is_video,             \* process(): the argument
    all_files,            \* process(): the paths in the order os.walk gave them
    potential_renames,    \* process(): path -> (timestamp, json_path)
    timestamp_counts,     \* process(): timestamp -> tally (absent keys are 0)
    processed_timestamps, \* process(): timestamp -> running counter
    done,                 \* process(): files handled by the second loop
    ALL_YEARS,            \* the lines of ALL_YEARS.sh
    calls,                \* the calls of process() so far: arguments and offset
    existing,             \* find_json_file(): the paths os.path.exists finds
    image_path,           \* find_json_file(): the argument
    find_pc,              \* find_json_file(): "idle", "called", "loop", "returned"
    metadata_name,        \* find_json_file(): the local metadata_name
    num,                  \* find_json_file(): the local num
    find_i,               \* find_json_file(): the loop variable i
    probes,               \* find_json_file(): the paths tested so far, in order
    found                 \* find_json_file(): the value returned

processVars ==
    << media, pc, directory, is_video, all_files, potential_renames, timestamp_counts,
       processed_timestamps, done, ALL_YEARS, calls >>

findVars ==
    << existing, image_path, find_pc, metadata_name, num, find_i, probes, found >>

vars == << processVars, findVars >>

\* The names in the scanned directory: media, their sidecars, other files.
Listing ==
    DOMAIN media
        \cup {SidecarName(n) : n \in {m \in DOMAIN media : media[m].sidecar # NoSidecar}}
        \cup OtherNames

\* os.path.exists for the paths the locator probes below `dir`.
ExistingPaths(dir) == {Join2(dir, n) : n \in Listing}

\* The file a path of the scanned directory names.
NameOf(path) == Basename(path)

\* d[key] of a defaultdict(int).
Tally(d, key) == IF key \in DOMAIN d THEN d[key] ELSE 0
Bump(d, key) == [k \in DOMAIN d \cup {key} |-> IF k = key THEN Tally(d, key) + 1 ELSE d[k]]

NoFunction == [x \in {} |-> x]

(***************************************************************************)
(* process(directory)                                                      *)
(***************************************************************************)

\* The injective sequences over a finite set: the orders in which os.walk
\* may list the files of a directory.
Orders(S) ==
    { f \in [1..Cardinality(S) -> S] : \A i, j \in 1..Cardinality(S) : f[i] = f[j] => i = j }

\* filename.lower().endswith(file_extensions)
HasExtension(filename, file_extensions) ==
    \E e \in file_extensions : EndsWith(Lower(filename), e)

\* The paths the scan of `dir` collects: os.path.join(root, filename) for the
\* listed names with an extension of the mode.
Found(dir, video) ==
    LET file_extensions == IF video THEN VIDEO_EXTENSIONS ELSE IMAGE_EXTENSIONS
    IN  {Join2(dir, n) : n \in {m \in Listing : HasExtension(m, file_extensions)}}

\* The scan order used as it is, without sorting.
Unsorted(files) == files

\* sorted(all_files)
Sorted(files) == SortSeq(files, StrLess)

\* exif_func(filepath) for a path of the scanned directory.
exif_func(filepath) ==
    IF is_video THEN get_video_exif_datetime(media[NameOf(filepath)].exif)
    ELSE get_exif_datetime(media[NameOf(filepath)].exif)

\* The content of the sidecar file at a path find_json_file returned: that
\* of the sidecar of a media file, or that of the sidecar with the cut name.
ContentAt(dir, json_path) ==
    IF \E m \in DOMAIN media : Join2(dir, SidecarName(m)) = json_path
    THEN media[CHOOSE m \in DOMAIN media : Join2(dir, SidecarName(m)) = json_path].sidecar
    ELSE JsonEpoch1

\* The sidecar consulted first, the primary tag only without one.
ResolveSidecarFirst(dir, filepath, json_path) ==
    IF Truthy(json_path) THEN get_json_datetime(ContentAt(dir, json_path))
    ELSE IF Truthy(exif_func(filepath)) THEN format_exif_datetime(exif_func(filepath))
    ELSE None

\* Lines 167-174: the timestamp of one file; Raise when get_json_datetime
\* raises. The sidecar is read only when the primary tag gave no timestamp.
ResolveTimestamp(dir, filepath, json_path) ==
    LET exif_dt == exif_func(filepath)
        timestamp == IF Truthy(exif_dt) THEN format_exif_datetime(exif_dt) ELSE None
    IN  IF ~Truthy(timestamp) /\ Truthy(json_path)
        THEN get_json_datetime(ContentAt(dir, json_path))
        ELSE timestamp

\* Lines 176-180: the entry of potential_renames for a file.
RenameEntry(timestamp, json_path) ==
    IF Truthy(timestamp) THEN [timestamp |-> timestamp, json_path |-> json_path]
    ELSE [timestamp |-> None, json_path |-> None]

\* The suffix given to every file, whatever the tally.
SuffixAlways(count, current_count) == << "-" >> \o ZeroPad(current_count, 2)

\* Lines 194-196: the suffix of a file whose timestamp has the tally `count`
\* and which is the current_count-th of that timestamp.
Suffix(count, current_count) ==
    IF count > 1 THEN << "-" >> \o ZeroPad(current_count, 2) ELSE << >>

\* Lines 198-200 and 205-206: the destinations of the media file and of its
\* sidecar.
NewFilepath(filepath, base_new_name, suffix) ==
    Join3(DONE_DIR, Dirname(filepath), base_new_name \o suffix \o SplitextExt(filepath))
NewJsonFilepath(filepath, base_new_name, suffix) ==
    Join3(DONE_DIR, Dirname(filepath), base_new_name \o suffix \o DOT_JSON)

\* The lines written to ALL_YEARS.sh: mv "src" "dst", or a comment naming src.
MvLine(src, dst) == [op |-> "mv", src |-> src, dst |-> dst]
NoJsonLine(filepath) == [op |-> "# No json file for", src |-> filepath, dst |-> << >>]
NoTimestampLine(filepath) ==
    [op |-> "# No timestamp information available for", src |-> filepath, dst |-> << >>]

\* Lines 189-211: the lines the second loop writes for one file.
LinesFor(filepath, entry, counts, current_count) ==
    IF Truthy(entry.timestamp)
    THEN LET suffix == Suffix(Tally(counts, entry.timestamp), current_count)
         IN  << MvLine(filepath, NewFilepath(filepath, entry.timestamp, suffix)),
                IF Truthy(entry.json_path)
                THEN MvLine(entry.json_path,
                            NewJsonFilepath(filepath, entry.timestamp, suffix))
                ELSE NoJsonLine(filepath) >>
    ELSE << NoTimestampLine(filepath) >>

\* The locals of process() before a call and after it has ended.
NoLocals ==
    /\ directory = << >>
    /\ is_video = FALSE
    /\ all_files = << >>
    /\ potential_renames = NoFunction
    /\ timestamp_counts = NoFunction
    /\ processed_timestamps = NoFunction
    /\ done = 0

\* The locals are gone when the call ends.
DropLocals ==
    /\ directory' = << >>
    /\ is_video' = FALSE
    /\ all_files' = << >>
    /\ potential_renames' = NoFunction
    /\ timestamp_counts' = NoFunction
    /\ processed_timestamps' = NoFunction
    /\ done' = 0

\* The directories of at most n images with names among `universe`, and
\* those that hold a video next to at most n images.
Worlds(universe, profiles, n) ==
    UNION { [names -> profiles] : names \in {S \in SUBSET universe : Cardinality(S) <= n} }
VideoWorlds(universe, profiles, n) ==
    { w @@ (NAME_V :> vp) : w \in Worlds(universe, profiles, n), vp \in VideoProfiles }

\* find_json_file is not being stepped through.
FindIdle ==
    /\ existing = {}
    /\ image_path = << >>
    /\ find_pc = "idle"
    /\ metadata_name = << >>
    /\ num = None
    /\ find_i = 0
    /\ probes = << >>
    /\ found = None

Init ==
    /\ media \in Worlds(MediaNames, Profiles, MaxFiles)
                   \cup VideoWorlds(MediaNames, Profiles, MaxVideoCompanions)
    /\ pc = "idle"
    /\ NoLocals
    /\ ALL_YEARS = << >>
    /\ calls = << >>
    /\ FindIdle

\* The file opened with a mode that empties it.
OpenTruncate(content) == << >>

\* Line 140: open('ALL_YEARS.sh', 'a') leaves the content of the file as it
\* is (an absent file is created empty) and writes go to its end.
OpenAppend(content) == content

\* Lines 139-165: process(dir, video) opens ALL_YEARS.sh for appending and
\* scans the directory, os.walk listing the files of the mode in the order
\* `order`. With no such file it returns at once.
Enter(dir, video, order) ==
    /\ order \in Orders(Found(dir, video))
    /\ pc' = IF order = << >> THEN "returned" ELSE "pass1"
    /\ directory' = IF order = << >> THEN << >> ELSE dir
    /\ is_video' = IF order = << >> THEN FALSE ELSE video
    /\ all_files' = order
    /\ potential_renames' = NoFunction
    /\ timestamp_counts' = NoFunction
    /\ processed_timestamps' = NoFunction
    /\ done' = 0
    /\ ALL_YEARS' = OpenAppend(ALL_YEARS)
    /\ calls' = Append(calls, [directory |-> dir, is_video |-> video,
                                offset |-> Len(OpenAppend(ALL_YEARS))])
    /\ UNCHANGED media
    /\ UNCHANGED findVars

\* main(): the script is run on a directory, with --video or without.
Call ==
    /\ pc = "idle"
    /\ \E dir \in Directories, video \in BOOLEAN :
          \E order \in Orders(Found(dir, video)) : Enter(dir, video, order)

\* The script is run again, after a run that returned or raised.
Recall ==
    /\ pc \in {"returned", "raised"}
    /\ Len(calls) < MaxRuns
    /\ \E dir \in Directories, video \in BOOLEAN :
          \E order \in Orders(Found(dir, video)) : Enter(dir, video, order)

\* Lines 166-183: one iteration of the first loop, for the next path of
\* sorted(all_files). An exception of get_json_datetime ends the call.
Resolve ==
    /\ pc = "pass1"
    /\ LET filepath == Sorted(all_files)[Cardinality(DOMAIN potential_renames) + 1]
           json_path == find_json_file(filepath, ExistingPaths(directory))
           timestamp == ResolveTimestamp(directory, filepath, json_path)
       IN  IF timestamp = Raise
           THEN /\ pc' = "raised"
                /\ DropLocals
           ELSE /\ potential_renames' =
                       [f \in DOMAIN potential_renames \cup {filepath} |->
                           IF f = filepath THEN RenameEntry(timestamp, json_path)
                           ELSE potential_renames[f]]
                /\ timestamp_counts' =
                       IF Truthy(timestamp) THEN Bump(timestamp_counts, timestamp)
                       ELSE timestamp_counts
                /\ pc' = IF Cardinality(DOMAIN potential_renames) + 1 = Len(all_files)
                         THEN "pass2" ELSE "pass1"
                /\ UNCHANGED << directory, is_video, all_files,
                                processed_timestamps, done >>
    /\ UNCHANGED << media, ALL_YEARS, calls >>
    /\ UNCHANGED findVars

\* A running counter that starts at 1.
CurrentCountFromOne(processed, timestamp) == Tally(processed, timestamp) + 1

\* Line 191: current_count, the running counter of the timestamp.
CurrentCount(processed, timestamp) == Tally(processed, timestamp)

\* Lines 184-211: one iteration of the second loop.
Emit ==
    /\ pc = "pass2"
    /\ done < Len(all_files)
    /\ LET filepath == Sorted(all_files)[done + 1]
           entry == potential_renames[filepath]
       IN  /\ ALL_YEARS' = ALL_YEARS \o LinesFor(filepath, entry, timestamp_counts,
                                  CurrentCount(processed_timestamps, entry.timestamp))
           /\ processed_timestamps' =
                  IF Truthy(entry.timestamp)
                  THEN Bump(processed_timestamps, entry.timestamp)
                  ELSE processed_timestamps
    /\ done' = done + 1
    /\ UNCHANGED << media, pc, directory, is_video, all_files, potential_renames,
                    timestamp_counts, calls >>
    /\ UNCHANGED findVars

\* Line 213: the second loop is over; process() returns and ALL_YEARS.sh is
\* closed.
Return ==
    /\ pc = "pass2"
    /\ done = Len(all_files)
    /\ pc' = "returned"
    /\ DropLocals
    /\ UNCHANGED << media, ALL_YEARS, calls >>
    /\ UNCHANGED findVars

Next ==
    \/ Call
    \/ Resolve
    \/ Emit
    \/ Return

Spec == Init /\ [][Next]_vars

\* Several runs of the script in a row, in either mode, on a directory of
\* few images: the video mode finds no file there.
InitRuns ==
    /\ media \in Worlds(RerunNames, RerunProfiles, MaxRerunFiles)
    /\ pc = "idle"
    /\ NoLocals
    /\ ALL_YEARS = << >>
    /\ calls = << >>
    /\ FindIdle

NextRuns ==
    \/ Next
    \/ Recall

SpecRuns == InitRuns /\ [][NextRuns]_vars

\* One run on a directory of images whose names have a common beginning.
InitShared ==
    /\ media \in Worlds(SharedNames, Profiles, MaxSharedFiles)
    /\ pc = "idle"
    /\ NoLocals
    /\ ALL_YEARS = << >>
    /\ calls = << >>
    /\ FindIdle

SpecShared == InitShared /\ [][Next]_vars

(***************************************************************************)
(* find_json_file(image_path), statement by statement                      *)
(***************************************************************************)

\* A bound of the model: the files on disk when find_json_file is called.
MaxExisting == 2

PATH_IMG_2 == << "I", "M", "G", "(", "2", ")", ".", "j", "p", "g" >>
PATH_VIDEO_1 == << "p", "/", "V", "(", "1", ")", ".", "m", "p", "4" >>
PATH_PLAIN == << "p", "/", "a", ".", "j", "p", "g" >>
PATH_DIR_1 == << "d", "(", "1", ")", ".", "x", "/", "I", ".", "j", "p", "g" >>

\* The media paths find_json_file is called with.
FindPaths == {PATH_IMG_2, PATH_VIDEO_1, PATH_PLAIN, PATH_DIR_1}

\* The sidecar files that may be on disk: for each media path the name the
\* exporter writes, names it has truncated, and the name with the number
\* left in place.
FindDisk ==
    { << "I", "M", "G", ".", "j", "p", "g" >> \o SUPPLEMENTAL_METADATA
          \o << "(", "2", ")" >> \o DOT_JSON,
      PATH_IMG_2 \o SUPPLEMENTAL_METADATA \o DOT_JSON,
      << "I", "M", "G", ".", "j", "p", "g", ".", "s", "u", "p", "p", "l",
         "(", "2", ")" >> \o DOT_JSON,
      << "I", "M", "G", ".", "j", "p", "g", ".", "s", "u", "(", "2", ")" >> \o DOT_JSON,
      << "p", "/", "V", ".", "m", "p", "4" >> \o SUPPLEMENTAL_METADATA
          \o << "(", "1", ")" >> \o DOT_JSON,
      << "p", "/", "V", ".", "m", "p" >> \o SUPPLEMENTAL_METADATA
          \o << "(", "1", ")" >> \o DOT_JSON,
      PATH_PLAIN \o SUPPLEMENTAL_METADATA \o DOT_JSON,
      << "p", "/", "a", ".", "j", "p", "g", ".", "s", "u", "p" >> \o DOT_JSON,
      << "p", "/", "a", ".", "j", "p", "g", ".", "s", "u" >> \o DOT_JSON,
      PATH_DIR_1 \o SUPPLEMENTAL_METADATA \o DOT_JSON }

InitFind ==
    /\ media = NoFunction
    /\ pc = "idle"
    /\ NoLocals
    /\ ALL_YEARS = << >>
    /\ calls = << >>
    /\ existing \in {S \in SUBSET FindDisk : Cardinality(S) <= MaxExisting}
    /\ image_path \in FindPaths
    /\ find_pc = "called"
    /\ metadata_name = << >>
    /\ num = None
    /\ find_i = 0
    /\ probes = << >>
    /\ found = None

\* Lines 107-112: the candidate name and the relocated number.
FindBegin ==
    /\ find_pc = "called"
    /\ num' = SuffixNum(image_path)
    /\ metadata_name' = MetadataName(image_path)
    /\ find_i' = FirstProbeLen(MetadataName(image_path))
    /\ find_pc' = "loop"
    /\ UNCHANGED << existing, image_path, probes, found >>
    /\ UNCHANGED processVars

\* Lines 113-117: one iteration of the loop, which returns the path it
\* tests when the path exists.
FindProbe ==
    /\ find_pc = "loop"
    /\ InRange(find_i)
    /\ probes' = Append(probes, PotentialJsonPath(metadata_name, num, find_i))
    /\ IF PotentialJsonPath(metadata_name, num, find_i) \in existing
       THEN /\ found' = PotentialJsonPath(metadata_name, num, find_i)
            /\ find_pc' = "returned"
            /\ find_i' = find_i
       ELSE /\ find_i' = find_i - 1
            /\ UNCHANGED << found, find_pc >>
    /\ UNCHANGED << existing, image_path, metadata_name, num >>
    /\ UNCHANGED processVars

\* Line 118: the loop is over and nothing was found.
FindAbsent ==
    /\ find_pc = "loop"
    /\ ~InRange(find_i)
    /\ found' = None
    /\ find_pc' = "returned"
    /\ UNCHANGED << existing, image_path, metadata_name, num, find_i, probes >>
    /\ UNCHANGED processVars

NextFind ==
    \/ FindBegin
    \/ FindProbe
    \/ FindAbsent

SpecFind == InitFind /\ [][NextFind]_vars

\* The steps return what the planner gets from find_json_file.
FindAgrees == find_pc = "returned" => found = find_json_file(image_path, existing)

(***************************************************************************)
(* Properties                                                              *)
(***************************************************************************)

\* The directory of the latest call and the lines it has appended so far.
LastDirectory == calls[Len(calls)].directory
LastFound == Found(LastDirectory, calls[Len(calls)].is_video)
RunLines == Drop(ALL_YEARS, calls[Len(calls)].offset)

\* The second loop of the current call has handled every file.
PlanWritten == pc = "pass2" /\ done = Len(all_files)

\* The lines of a plan that are the entry of a media file: its move, or the
\* comment that it has no timestamp.
IsEntryOf(line, filepath) ==
    /\ line.src = filepath
    /\ line.op \in {"mv", "# No timestamp information available for"}
EntryLines(lines, filepath) == {i \in 1..Len(lines) : IsEntryOf(lines[i], filepath)}

\* The move directives of media files among lines, for the files `files`.
MediaMoves(lines, files) == {i \in 1..Len(lines) : lines[i].op = "mv" /\ lines[i].src \in files}

\* The base name of a destination: its file name without the extension.
BaseOf(dst) == Take(Basename(dst), Len(Basename(dst)) - Len(SplitextExt(dst)))

\* The files of the current call that resolved to the timestamp of `filepath`.
GroupOf(filepath) ==
    {g \in DOMAIN potential_renames :
        potential_renames[g].timestamp = potential_renames[filepath].timestamp}

\* A primary tag value in the pattern YYYY:MM:DD HH:MM:SS, and the canonical
\* timestamp YYYYMMDD-HHMMSS it stands for.
IsExifPattern(v) ==
    /\ Len(v) = 19
    /\ \A i \in {5, 8, 14, 17} : v[i] = ":"
    /\ v[11] = " "
    /\ \A i \in (1..19) \ {5, 8, 11, 14, 17} : IsDigit(v[i])
CanonicalOf(v) ==
    << v[1], v[2], v[3], v[4], v[6], v[7], v[9], v[10], "-",
       v[12], v[13], v[15], v[16], v[18], v[19] >>
IsCanonical(t) ==
    /\ Len(t) = 15
    /\ t[9] = "-"
    /\ \A i \in (1..15) \ {9} : IsDigit(t[i])

\* C1 (as claimed): when a call of process() has ended, the lines it appended
\* hold exactly one entry for every media file it found, a move for a file
\* with a timestamp or the comment that no timestamp is available, and
\* nothing else but the line about the sidecar after each move.
C1_Totality ==
    pc \in {"returned", "raised"} =>
        /\ \A f \in LastFound : Cardinality(EntryLines(RunLines, f)) = 1
        /\ Cardinality({i \in 1..Len(RunLines) :
                           RunLines[i].op \in {"mv", "# No timestamp information available for"}
                           /\ RunLines[i].src \in LastFound})
               = Cardinality(LastFound)

\* C2 (as claimed): the destination base names of the media moves of one run
\* are pairwise distinct.
C2_NoCollision ==
    Len(calls) > 0 =>
        \A i, j \in MediaMoves(RunLines, LastFound) :
            BaseOf(RunLines[i].dst) = BaseOf(RunLines[j].dst) => i = j

\* C3: a media file is moved to the bare timestamp it resolved to, without a
\* suffix, if and only if no other file of the run resolved to the same
\* timestamp.
C3_SuffixOnlyWhenNeeded ==
    pc = "pass2" =>
        \A i \in MediaMoves(RunLines, DOMAIN potential_renames) :
            (BaseOf(RunLines[i].dst) = potential_renames[RunLines[i].src].timestamp)
                <=> (Cardinality(GroupOf(RunLines[i].src)) = 1)

\* C3 witness: a plan is written in which one file has its timestamp alone
\* and two others share theirs.
C3_Witness ==
    /\ PlanWritten
    /\ \E f, g \in DOMAIN potential_renames :
          /\ Truthy(potential_renames[f].timestamp)
          /\ Truthy(potential_renames[g].timestamp)
          /\ Cardinality(GroupOf(f)) = 1
          /\ Cardinality(GroupOf(g)) = 2

\* The lines the i-th call appended, once it has ended.
RunEnded(i) == i < Len(calls) \/ pc \in {"returned", "raised"}
Segment(i) ==
    SubSeq(ALL_YEARS, calls[i].offset + 1,
           IF i < Len(calls) THEN calls[i + 1].offset ELSE Len(ALL_YEARS))

\* The sources of the entries of a plan, in the order of the plan.
EntrySources(lines) ==
    LET entries == SelectSeq(lines, LAMBDA l : l.op # "# No json file for"
                                               /\ ~EndsWith(l.src, DOT_JSON))
    IN  [i \in 1..Len(entries) |-> entries[i].src]

\* C4: two runs of process() on the same directory in the same mode, whose
\* files have not changed, append the same lines, whatever the order in
\* which os.walk lists the files; the entries of a run are in lexicographic
\* order of the paths.
C4_Determinism ==
    /\ \A i, j \in 1..Len(calls) :
          (RunEnded(i) /\ RunEnded(j) /\ calls[i].directory = calls[j].directory
              /\ calls[i].is_video = calls[j].is_video)
              => Segment(i) = Segment(j)
    /\ \A i \in 1..Len(calls) :
          RunEnded(i) =>
              \A a, b \in 1..Len(EntrySources(Segment(i))) :
                  a < b => StrLess(EntrySources(Segment(i))[a], EntrySources(Segment(i))[b])

\* C4 witness: two runs on the same directory have ended, each with the
\* entries of two files.
C4_Witness ==
    /\ Len(calls) = 2
    /\ pc = "returned"
    /\ calls[1].directory = calls[2].directory
    /\ calls[1].is_video = calls[2].is_video
    /\ Len(EntrySources(Segment(1))) = 2
    /\ Len(EntrySources(Segment(2))) = 2

TwoDigits(k) == << ASCII[(k \div 10) + 17], ASCII[(k % 10) + 17] >>

\* C6: of the files of a run that share a timestamp, the k-th in
\* lexicographic order of the paths (k from 0) is moved to the timestamp
\* followed by "-" and the two-digit numeral of k.
C6_OrderedSuffix ==
    pc = "pass2" =>
        \A i \in MediaMoves(RunLines, DOMAIN potential_renames) :
            Cardinality(GroupOf(RunLines[i].src)) >= 2 =>
                BaseOf(RunLines[i].dst)
                    = potential_renames[RunLines[i].src].timestamp \o << "-" >>
                        \o TwoDigits(Cardinality({g \in GroupOf(RunLines[i].src) :
                                                     StrLess(g, RunLines[i].src)}))

\* C6 witness: a plan is written in which three files share a timestamp, the
\* last of them moved to the suffix -02.
C6_Witness ==
    /\ PlanWritten
    /\ \E i \in MediaMoves(RunLines, DOMAIN potential_renames) :
          /\ Cardinality(GroupOf(RunLines[i].src)) = 3
          /\ EndsWith(BaseOf(RunLines[i].dst), << "-", "0", "2" >>)

\* C9 (as claimed): every move directive has its destination below done/:
\* "done", the directory of the source, and the new file name.
C9_StagingRoot ==
    \A i \in 1..Len(ALL_YEARS) :
        ALL_YEARS[i].op = "mv" =>
            /\ StartsWith(ALL_YEARS[i].dst, DONE_DIR \o << "/" >>)
            /\ ALL_YEARS[i].dst
                   = DONE_DIR \o << "/" >> \o Dirname(ALL_YEARS[i].src) \o << "/" >>
                        \o Basename(ALL_YEARS[i].dst)
            /\ ~EndsWith(ALL_YEARS[i].src, DOT_JSON)
                   => SplitextExt(ALL_YEARS[i].dst) = SplitextExt(ALL_YEARS[i].src)

\* C10 (as claimed): every timestamp a file resolved to is of the form
\* YYYYMMDD-HHMMSS; a primary tag that is not in the pattern counts as absent.
C10_CanonicalTimestamps ==
    \A f \in DOMAIN potential_renames :
        Truthy(potential_renames[f].timestamp) => IsCanonical(potential_renames[f].timestamp)

\* A path whose file name has a parenthesized number immediately before its
\* extension, name(N).ext; the place of its "("; the sidecar name with the
\* number moved behind .supplemental-metadata; the sidecar name with
\* everything left in place.
ExtStart(path) == Len(path) - Len(SplitextExt(path))
NumberedName(path) ==
    /\ SplitextExt(path) # << >>
    /\ ExtStart(path) >= 3
    /\ path[ExtStart(path)] = ")"
    /\ \E p \in (LastSlash(path) + 1)..(ExtStart(path) - 2) :
          /\ path[p] = "("
          /\ \A j \in (p + 1)..(ExtStart(path) - 1) : IsDigit(path[j])
NumberStart(path) ==
    CHOOSE p \in (LastSlash(path) + 1)..(ExtStart(path) - 2) :
        /\ path[p] = "("
        /\ \A j \in (p + 1)..(ExtStart(path) - 1) : IsDigit(path[j])
RelocatedSidecar(path) ==
    Take(path, NumberStart(path) - 1) \o SplitextExt(path) \o SUPPLEMENTAL_METADATA
        \o SubSeq(path, NumberStart(path), ExtStart(path)) \o DOT_JSON
SimpleSidecar(path) == path \o SUPPLEMENTAL_METADATA \o DOT_JSON

\* C7 (as claimed): for a file name(N).ext the first path find_json_file
\* tests is name.ext.supplemental-metadata(N).json and it never tests
\* name(N).ext.supplemental-metadata.json; for any other file name the
\* first path it tests is the path followed by .supplemental-metadata.json.
C7_SuffixRelocation ==
    probes # << >> =>
        IF NumberedName(image_path)
        THEN /\ probes[1] = RelocatedSidecar(image_path)
             /\ \A k \in 1..Len(probes) : probes[k] # SimpleSidecar(image_path)
        ELSE probes[1] = SimpleSidecar(image_path)

\* The path tested for the prefix of length n of the candidate name.
ProbeOfLength(n) ==
    Take(metadata_name, n) \o (IF num = None THEN << >> ELSE num) \o DOT_JSON

\* The paths tested are those of the prefixes of the candidate name, from
\* the whole name on, each one character shorter than the one before; the
\* path returned is the first of them that exists.
LongestFirst ==
    /\ \A k \in 1..Len(probes) : probes[k] = ProbeOfLength(Len(metadata_name) - k + 1)
    /\ (find_pc = "returned" /\ found # None) =>
          /\ found \in existing
          /\ found = probes[Len(probes)]
          /\ \A k \in 1..(Len(probes) - 1) : probes[k] \notin existing

\* C8 (as claimed): the prefixes are tested longest first and the first path
\* that exists is returned; None is returned only when no path exists for
\* any prefix length down to and including 10.
C8_FloorInclusive ==
    /\ LongestFirst
    /\ (find_pc = "returned" /\ found = None) =>
          \A n \in 10..Len(metadata_name) : ProbeOfLength(n) \notin existing

\* C8 (amended): the prefixes are tested longest first and the first path
\* that exists is returned; the shortest prefix tested has 11 characters,
\* and None is returned exactly when no path exists for the prefix lengths
\* down to 11: the prefix of 10 characters is never tested.
C8_TruncationProbing ==
    /\ LongestFirst
    /\ find_pc \in {"loop", "returned"} => Len(probes) <= Len(metadata_name) - 10
    /\ (find_pc = "returned" /\ found = None) =>
          /\ Len(probes) = Len(metadata_name) - 10
          /\ \A n \in 11..Len(metadata_name) : ProbeOfLength(n) \notin existing

\* C8 witness: every prefix down to 11 characters was tested and None is
\* returned, though the path of the prefix of 10 characters exists.
C8_Witness ==
    /\ find_pc = "returned"
    /\ found = None
    /\ Len(probes) = Len(metadata_name) - 10
    /\ ProbeOfLength(10) \in existing

\* C11 (as claimed): whatever the content of a located sidecar,
\* get_json_datetime gives a timestamp or None and never raises: no call of
\* process() ends by an exception, and a call that has ended has written an
\* entry for every file it found.
C11_Containment ==
    /\ pc # "raised"
    /\ pc = "returned" => \A f \in LastFound : EntryLines(RunLines, f) # {}

\* C12: no step of a run of process() changes what ALL_YEARS.sh held before
\* it: the content before the step is a prefix of the content after it, also
\* when a run starts, finds no file, or ends by an exception; the lines of
\* successive runs follow one another in the order of the runs.
C12_AppendOnly ==
    [][/\ Len(ALL_YEARS') >= Len(ALL_YEARS)
       /\ SubSeq(ALL_YEARS', 1, Len(ALL_YEARS)) = ALL_YEARS
       /\ \A k \in 1..Len(calls') : calls'[k].offset <= Len(ALL_YEARS')
       /\ \A k \in 1..(Len(calls') - 1) : calls'[k].offset <= calls'[k + 1].offset]_vars

\* C12 witness: a second run, on another directory, has appended its lines
\* behind those of the first.
C12_Witness ==
    /\ Len(calls) = 2
    /\ pc = "returned"
    /\ calls[1].directory # calls[2].directory
    /\ calls[2].offset > 0
    /\ Len(ALL_YEARS) > calls[2].offset
    /\ StartsWith(ALL_YEARS[1].src, calls[1].directory)
    /\ StartsWith(ALL_YEARS[calls[2].offset + 1].src, calls[2].directory)

\* The moves of sidecar files among lines: the moves whose source is none of
\* the media files `files`.
SidecarMoves(lines, files) ==
    {i \in 1..Len(lines) : lines[i].op = "mv" /\ lines[i].src \notin files}

\* C13 (as claimed): no sidecar file is the source of the sidecar moves of
\* two media files of one run.
C13_OneMediaPerSidecar ==
    Len(calls) > 0 =>
        \A i, j \in SidecarMoves(RunLines, LastFound) :
            RunLines[i].src = RunLines[j].src => i = j

\* A line [Group] TagName : value of the output of exiftool -G -s, and the
\* values a tag has in the lines of an output that are valid date-times.
TagLine(group, tag, value) ==
    << "[" >> \o group \o << "]", " " >> \o tag \o << " ", ":", " " >> \o value
TagGroups == { << "Q", "u", "i", "c", "k", "T", "i", "m", "e" >> }
DateValuesOf(stdout, tag) ==
    {v \in {STAMP_1, STAMP_2} :
        /\ IsExifPattern(v)
        /\ \E k \in 1..Len(SplitLines(Strip(stdout))) : \E g \in TagGroups :
              SplitLines(Strip(stdout))[k] = TagLine(g, tag, v)}

\* The tags of the preference, from the place k on, that have a valid
\* date-time in an output; the first of them.
ValidTagsFrom(stdout, k) ==
    {j \in k..Len(TAG_PREFERENCE) : DateValuesOf(stdout, TAG_PREFERENCE[j]) # {}}
FirstValidTag(stdout) ==
    CHOOSE j \in ValidTagsFrom(stdout, 1) : \A i \in ValidTagsFrom(stdout, 1) : j <= i

\* C14 (as claimed): in video mode a file resolves to the date-time of the
\* first tag, in the order DateTimeOriginal, CreateDate, MediaCreateDate,
\* TrackCreateDate, that has a valid date-time in the lines
\* [Group] TagName : value exiftool printed for it.
C14_VideoTagFallback ==
    is_video =>
        \A f \in DOMAIN potential_renames :
            ValidTagsFrom(media[NameOf(f)].exif.stdout, 1) # {} =>
                \E v \in DateValuesOf(media[NameOf(f)].exif.stdout,
                                      TAG_PREFERENCE[FirstValidTag(media[NameOf(f)].exif.stdout)]) :
                    potential_renames[f].timestamp = CanonicalOf(v)

\* The line behind a media move is the line of the same file: the move of
\* the sidecar recorded for it to the base name of the media destination
\* with .json, in the directory of the media destination, or the comment
\* that the file has no sidecar when none is recorded.
SidecarLineFollows(lines, i) ==
    /\ i + 1 <= Len(lines)
    /\ IF Truthy(potential_renames[lines[i].src].json_path)
       THEN /\ lines[i + 1].op = "mv"
            /\ lines[i + 1].src = potential_renames[lines[i].src].json_path
            /\ Dirname(lines[i + 1].dst) = Dirname(lines[i].dst)
            /\ Basename(lines[i + 1].dst) = BaseOf(lines[i].dst) \o DOT_JSON
       ELSE lines[i + 1] = NoJsonLine(lines[i].src)
    /\ i + 2 <= Len(lines) => lines[i + 2].src \in DOMAIN potential_renames

\* C15 (as claimed): every media move is followed by exactly one line of the
\* same file, the move of its sidecar alongside the media destination or the
\* comment that it has none; the sidecar is moved only for a file whose
\* timestamp came from the sidecar, the primary tag having given none.
C15_EntryShape ==
    pc = "pass2" =>
        \A i \in MediaMoves(RunLines, DOMAIN potential_renames) :
            /\ SidecarLineFollows(RunLines, i)
            /\ RunLines[i + 1].op = "mv" => ~Truthy(exif_func(RunLines[i].src))

====
